---- MODULE Spec2Model ----
(***************************************************************************)
(* Model of the column-distribution analysis of python-ml-skills:          *)
(*   packages/ml-skills-core/src/ml_skills_core/connection.py              *)
(*   packages/skill-eda/src/skill_eda/column_dist.py                       *)
(*   skills/data-connector/scripts/connect.py                              *)
(*                                                                         *)
(* A Python str is a sequence of one-character strings.  Text that the     *)
(* code writes as a literal part of an f-string is kept as one element     *)
(* (e.g. "parquet_scan('"); text that comes from an argument is kept       *)
(* character by character.                                                 *)
(*                                                                         *)
(* Percentages are Python floats and are computed as IEEE 754 binary64     *)
(* values, bit by bit.  The ratio of assess_cardinality is only compared   *)
(* with the literals 0.01 and 0.5 and is kept as an integer comparison:    *)
(* the correctly rounded quotient compares with these literals as the      *)
(* exact quotient does unless the operands are beyond 2^53 / 100.          *)
(***************************************************************************)
EXTENDS Integers, Sequences, FiniteSets, TLC

VARIABLES
    entry,          \* which program runs: "column_dist", "query_column_stats", "connect", or a pure function's name
    args,           \* argparse.Namespace: source, column, type, limit (or a pure call's arguments)
    fs,             \* environment: does Path(args.source) exist
    data,           \* environment: the column held by the source, value -> row count
    pc,             \* position in main / query_column_stats
    conn,           \* the DuckDB connection: "none", "open", "closed"
    opened,         \* number of connections get_connection returned
    closed,         \* number of conn.close() calls
    locals,         \* source_type, scan, safe_col, total, nulls, unique_count, distribution
    exc,            \* the exception in flight, or NoException
    queries,        \* every conn.execute call so far, in order
    exitCode,       \* main's return value: <<>> before main returns, then <<code>>
    stderr,         \* messages written to sys.stderr
    written,        \* number of report.write calls
    ret             \* value returned by the call (or the exception it raised)

vars == <<entry, args, fs, data, pc, conn, opened, closed, locals, exc,
          queries, exitCode, stderr, written, ret>>

None == "None"

-----------------------------------------------------------------------------
(* Python str helpers *)

UpperCase == <<"A","B","C","D","E","F","G","H","I","J","K","L","M",
               "N","O","P","Q","R","S","T","U","V","W","X","Y","Z">>

LowerCase == <<"a","b","c","d","e","f","g","h","i","j","k","l","m",
               "n","o","p","q","r","s","t","u","v","w","x","y","z">>

Digits == {"0","1","2","3","4","5","6","7","8","9"}

Range(s) == {s[i] : i \in DOMAIN s}

Letters == Range(UpperCase) \cup Range(LowerCase)

\* str.lower() on one character
LowerChar(c) ==
    IF c \in Range(UpperCase)
    THEN LowerCase[CHOOSE i \in DOMAIN UpperCase : UpperCase[i] = c]
    ELSE c

\* str.lower()
Lower(s) == [i \in DOMAIN s |-> LowerChar(s[i])]

\* str.endswith(suffix)
EndsWith(s, suffix) ==
    /\ Len(s) >= Len(suffix)
    /\ SubSeq(s, Len(s) - Len(suffix) + 1, Len(s)) = suffix

\* sub in s
Contains(s, sub) ==
    \E i \in 1..(Len(s) - Len(sub) + 1) : SubSeq(s, i, i + Len(sub) - 1) = sub

\* all sequences over S of length at most n
SeqsUpTo(S, n) == UNION {[1..k -> S] : k \in 0..n}

Ok(v) == [ok |-> TRUE, value |-> v]

Raise(kind, msg) == [ok |-> FALSE, error |-> kind, message |-> msg]

-----------------------------------------------------------------------------
(* connection.py *)

\* re.match(r"^[A-Za-z_][A-Za-z0-9_]*$", name): the first character is of the
\* first class, the following k-1 characters are of the second class, and
\* "$" matches at the end of the string or just before a newline that is the
\* last character of the string.
ReMatchIdentifier(name) ==
    \E k \in 1..Len(name) :
        /\ name[1] \in Letters \cup {"_"}
        /\ \A i \in 2..k : name[i] \in Letters \cup Digits \cup {"_"}
        /\ \/ k = Len(name)
           \/ k = Len(name) - 1 /\ name[Len(name)] = "\n"

validate_identifier(name) == ReMatchIdentifier(name)

\* quote_identifier without the validation
quote_identifier_unchecked(name) == Ok(<<"\"">> \o name \o <<"\"">>)

quote_identifier(name) ==
    IF ~validate_identifier(name)
    THEN Raise("ValueError", <<"Invalid identifier: ">> \o name)
    ELSE Ok(<<"\"">> \o name \o <<"\"">>)

\* escape_string that leaves the quotes as they are
escape_string_none(value) == value

RECURSIVE escape_string(_)
\* value.replace("'", "''")
escape_string(value) ==
    IF value = <<>> THEN <<>>
    ELSE (IF Head(value) = "'" THEN <<"'", "'">> ELSE <<Head(value)>>)
         \o escape_string(Tail(value))

dot_parquet == <<".","p","a","r","q","u","e","t">>
dot_csv == <<".","c","s","v">>
dot_json == <<".","j","s","o","n">>
dot_jsonl == <<".","j","s","o","n","l">>
dot_db == <<".","d","b">>
dot_duckdb == <<".","d","u","c","k","d","b">>
url_mark == <<":","/","/">>

\* infer_source_type that looks for "://" before the suffixes
infer_source_type_url_first(source) ==
    LET source_lower == Lower(source) IN
    IF Contains(source, url_mark) THEN "database"
    ELSE IF EndsWith(source_lower, dot_parquet) THEN "parquet"
    ELSE IF EndsWith(source_lower, dot_csv) THEN "csv"
    ELSE IF EndsWith(source_lower, dot_json) \/ EndsWith(source_lower, dot_jsonl) THEN "json"
    ELSE IF EndsWith(source_lower, dot_db) \/ EndsWith(source_lower, dot_duckdb) THEN "database"
    ELSE "unknown"

infer_source_type(source) ==
    LET source_lower == Lower(source) IN
    IF EndsWith(source_lower, dot_parquet) THEN "parquet"
    ELSE IF EndsWith(source_lower, dot_csv) THEN "csv"
    ELSE IF EndsWith(source_lower, dot_json) \/ EndsWith(source_lower, dot_jsonl) THEN "json"
    ELSE IF EndsWith(source_lower, dot_db) \/ EndsWith(source_lower, dot_duckdb) THEN "database"
    ELSE IF Contains(source, url_mark) THEN "database"
    ELSE "unknown"

build_scan_query(source, source_type) ==
    LET st == IF source_type = None THEN infer_source_type(source) ELSE source_type
        safe_source == escape_string(source)
    IN  IF st = "parquet" THEN Ok(<<"parquet_scan('">> \o safe_source \o <<"')">>)
        ELSE IF st = "csv" THEN Ok(<<"read_csv_auto('">> \o safe_source \o <<"')">>)
        ELSE IF st = "json" THEN Ok(<<"read_json_auto('">> \o safe_source \o <<"')">>)
        ELSE IF st = "database"
             THEN Raise("ValueError", <<"Database connections require explicit table specification">>)
        ELSE Raise("ValueError", <<"Unknown source type for: ">> \o source)

-----------------------------------------------------------------------------
(* Python float: IEEE 754 binary64, round to nearest, ties to even.

   A natural number is a sequence of bits, lowest bit first, without high
   zero bits.  A float x >= 0 is [m, e] with value m * 2^e: 0.0 has m = <<>>,
   every other float has a mantissa m of exactly MantissaBits bits.  The
   values of the model stay far from overflow and from the subnormals. *)

MantissaBits == 53

RECURSIVE BitsOf(_)
\* the bits of a natural number
BitsOf(n) == IF n = 0 THEN <<>> ELSE <<n % 2>> \o BitsOf(n \div 2)

RECURSIVE Trim(_)
\* without the high zero bits
Trim(a) ==
    IF a = <<>> \/ a[Len(a)] = 1 THEN a ELSE Trim(SubSeq(a, 1, Len(a) - 1))

\* a * 2^k
ShiftL(a, k) == [i \in 1..k |-> 0] \o a

\* bit i of a, 0 beyond its length
BitAt(a, i) == IF i <= Len(a) THEN a[i] ELSE 0

RECURSIVE AddBits(_, _, _, _, _)
\* bits from..to of a + b + carry (carry entering at bit from), followed by the
\* carry out of bit to; the range is halved so that long operands nest little
AddBits(a, b, carry, from, to) ==
    IF from = to
    THEN LET sum == BitAt(a, from) + BitAt(b, from) + carry IN <<sum % 2, sum \div 2>>
    ELSE LET mid == (from + to) \div 2
             low == AddBits(a, b, carry, from, mid)
             high == AddBits(a, b, low[Len(low)], mid + 1, to)
         IN  SubSeq(low, 1, Len(low) - 1) \o high

\* a + b + carry
BitsAdd(a, b, carry) ==
    LET n == IF Len(a) >= Len(b) THEN Len(a) ELSE Len(b) IN
    IF n = 0 THEN (IF carry = 1 THEN <<1>> ELSE <<>>)
    ELSE LET sum == AddBits(a, b, carry, 1, n) IN
         IF sum[n + 1] = 1 THEN sum ELSE SubSeq(sum, 1, n)

RECURSIVE BitsTimes(_, _)
\* a * k for a natural number k
BitsTimes(a, k) ==
    IF k = 0 THEN <<>>
    ELSE IF k = 1 THEN a
    ELSE IF k % 2 = 0 THEN ShiftL(BitsTimes(a, k \div 2), 1)
    ELSE BitsAdd(a, ShiftL(BitsTimes(a, k \div 2), 1), 0)

\* a < b for bit sequences without high zero bits
BitsLt(a, b) ==
    \/ Len(a) < Len(b)
    \/ /\ Len(a) = Len(b)
       /\ \E i \in DOMAIN a :
             /\ a[i] < b[i]
             /\ \A j \in (i + 1)..Len(a) : a[j] = b[j]

Zero == [m |-> <<>>, e |-> 0]

\* the float nearest to bits * 2^e (plus a little more when sticky), ties to even
RoundToFloat(bits, e, sticky) ==
    LET len == Len(bits)
        drop == len - MantissaBits
    IN  IF len = 0 THEN Zero
        ELSE IF drop <= 0 THEN [m |-> ShiftL(bits, -drop), e |-> e + drop]
        ELSE LET kept == SubSeq(bits, drop + 1, len)
                 half == bits[drop] = 1
                 more == sticky \/ \E i \in 1..(drop - 1) : bits[i] = 1
                 up == half /\ (more \/ kept[1] = 1)
                 m == IF up THEN BitsAdd(kept, <<1>>, 0) ELSE kept
             IN  IF Len(m) > MantissaBits
                 THEN [m |-> SubSeq(m, 2, Len(m)), e |-> e + drop + 1]
                 ELSE [m |-> m, e |-> e + drop]

\* float(n) for a natural number n
FromInt(n) == RoundToFloat(BitsOf(n), 0, FALSE)

RECURSIVE LeadingZeros(_, _)
\* the zero bits of r / t after the binary point and before its first 1, for
\* 0 < r < t
LeadingZeros(r, t) == IF 2 * r >= t THEN 0 ELSE 1 + LeadingZeros(2 * r, t)

RECURSIVE Quotient(_, _, _)
\* the first n bits of r / t after the binary point for 0 <= r < t, found by
\* long division: [bits, highest bit first; r, the remainder left]
Quotient(r, t, n) ==
    IF n = 0 THEN [bits |-> <<>>, r |-> r]
    ELSE IF n = 1
    THEN (IF 2 * r >= t THEN [bits |-> <<1>>, r |-> 2 * r - t]
                        ELSE [bits |-> <<0>>, r |-> 2 * r])
    ELSE LET first == Quotient(r, t, n \div 2)
             second == Quotient(first.r, t, n - n \div 2)
         IN  [bits |-> first.bits \o second.bits, r |-> second.r]

Reverse(a) == [i \in DOMAIN a |-> a[Len(a) + 1 - i]]

\* n / t for integers n >= 0 and t > 0: the correctly rounded quotient, from
\* the first MantissaBits + 2 significant bits of n / t and what is left
FloatDiv(n, t) ==
    IF n = 0 THEN Zero
    ELSE LET whole == Reverse(BitsOf(n \div t))
             zeros == IF whole = <<>> THEN LeadingZeros(n % t, t) ELSE 0
             places == zeros + MantissaBits + 2 - Len(whole)
             q == Quotient(n % t, t, IF places > 0 THEN places ELSE 0)
             bits == whole \o SubSeq(q.bits, zeros + 1, Len(q.bits))
         IN  RoundToFloat(Reverse(bits), -Len(q.bits), q.r # 0)

\* x * k for a float x and a natural number k that is a float exactly
FloatTimes(x, k) == RoundToFloat(Trim(BitsTimes(x.m, k)), x.e, FALSE)

\* x + y
FloatAdd(x, y) ==
    IF x.m = <<>> THEN y
    ELSE IF y.m = <<>> THEN x
    ELSE LET e == IF x.e <= y.e THEN x.e ELSE y.e IN
         RoundToFloat(Trim(BitsAdd(ShiftL(x.m, x.e - e), ShiftL(y.m, y.e - e), 0)),
                      e, FALSE)

\* x < y
FloatLt(x, y) ==
    IF y.m = <<>> THEN FALSE
    ELSE IF x.m = <<>> THEN TRUE
    ELSE x.e < y.e \/ (x.e = y.e /\ BitsLt(x.m, y.m))

\* x <= y
FloatLe(x, y) == ~FloatLt(y, x)

-----------------------------------------------------------------------------
(* column_dist.py: the distribution analyzer *)

\* (n / t * 100) if t > 0 else 0
Pct(n, t) == IF t > 0 THEN FloatTimes(FloatDiv(n, t), 100) ELSE Zero

\* p < k, p > k and p == k for a float p and an integer literal k
PctLt(p, k) == FloatLt(p, FromInt(k))

PctGt(p, k) == FloatLt(FromInt(k), p)

PctEq(p, k) == p = FromInt(k)

\* f"{value:.2f}", f"{value:.1f}" and f"{value:,}": the format and the value formatted
Fmt(spec, value) == [format |-> spec, of |-> value]

VeryHigh == "Very High (possibly unique identifier)"

\* assess_cardinality without the "total_count == 0" branch
assess_cardinality_no_empty(unique_count, total_count) ==
    IF unique_count <= 10 THEN "Low"
    ELSE IF unique_count <= 100 \/ unique_count * 100 < total_count THEN "Medium"
    ELSE IF unique_count * 2 < total_count THEN "High"
    ELSE VeryHigh

\* assess_cardinality with "unique_count < 10" for the Low branch
assess_cardinality_lt(unique_count, total_count) ==
    IF total_count = 0 THEN "Empty"
    ELSE IF unique_count < 10 THEN "Low"
    ELSE IF unique_count <= 100 \/ unique_count * 100 < total_count THEN "Medium"
    ELSE IF unique_count * 2 < total_count THEN "High"
    ELSE VeryHigh

assess_cardinality(unique_count, total_count) ==
    IF total_count = 0 THEN "Empty"
    \* ratio = unique_count / total_count
    ELSE IF unique_count <= 10 THEN "Low"
    \* ratio < 0.01
    ELSE IF unique_count <= 100 \/ unique_count * 100 < total_count THEN "Medium"
    \* ratio < 0.5
    ELSE IF unique_count * 2 < total_count THEN "High"
    ELSE VeryHigh

\* the "Cardinality observation" block
CardinalityObservation(unique_count, total) ==
    LET cardinality == assess_cardinality(unique_count, total) IN
    IF cardinality = "Low"
    THEN << <<"Low cardinality column (", unique_count,
              " unique values) - suitable for categorical encoding">> >>
    ELSE IF cardinality = VeryHigh
    THEN << <<"Very high cardinality - may be an identifier column, consider excluding from features">> >>
    ELSE <<>>

\* the missing-data block with "<=" for "<"
MissingObservation_le(total, nulls) ==
    LET null_pct == Pct(nulls, total) IN
    IF PctEq(null_pct, 0)
    THEN << <<"No missing data">> >>
    ELSE IF ~PctGt(null_pct, 1)
    THEN << <<"Minimal missing data (", Fmt(".2f", null_pct), "%)">> >>
    ELSE IF ~PctGt(null_pct, 5)
    THEN << <<"Some missing data (", Fmt(".2f", null_pct), "%) - consider imputation strategy">> >>
    ELSE << <<"Significant missing data (", Fmt(".2f", null_pct),
              "%) - investigate missingness pattern">> >>

\* the "Missing data observation" block
MissingObservation(total, nulls) ==
    LET null_pct == Pct(nulls, total) IN
    IF PctEq(null_pct, 0)
    THEN << <<"No missing data">> >>
    ELSE IF PctLt(null_pct, 1)
    THEN << <<"Minimal missing data (", Fmt(".2f", null_pct), "%)">> >>
    ELSE IF PctLt(null_pct, 5)
    THEN << <<"Some missing data (", Fmt(".2f", null_pct), "%) - consider imputation strategy">> >>
    ELSE << <<"Significant missing data (", Fmt(".2f", null_pct),
              "%) - investigate missingness pattern">> >>

\* the imbalance block with ">=" for ">"
ImbalanceObservation_ge(top_value_pct) ==
    IF ~PctLt(top_value_pct, 95)
    THEN << <<"Extreme imbalance: top value represents ", Fmt(".1f", top_value_pct), "% of data">> >>
    ELSE IF ~PctLt(top_value_pct, 80)
    THEN << <<"Class imbalance detected: top value represents ", Fmt(".1f", top_value_pct),
              "% of data">> >>
    ELSE <<>>

\* the "Imbalance observation" block
ImbalanceObservation(top_value_pct) ==
    IF PctGt(top_value_pct, 95)
    THEN << <<"Extreme imbalance: top value represents ", Fmt(".1f", top_value_pct), "% of data">> >>
    ELSE IF PctGt(top_value_pct, 80)
    THEN << <<"Class imbalance detected: top value represents ", Fmt(".1f", top_value_pct),
              "% of data">> >>
    ELSE <<>>

\* generate_observations with the imbalance block first
generate_observations_imbalance_first(total, nulls, unique_count, top_value_pct) ==
    ImbalanceObservation(top_value_pct)
        \o CardinalityObservation(unique_count, total)
        \o MissingObservation(total, nulls)

generate_observations(total, nulls, unique_count, top_value_pct) ==
    CardinalityObservation(unique_count, total)
        \o MissingObservation(total, nulls)
        \o ImbalanceObservation(top_value_pct)

-----------------------------------------------------------------------------
(* The query engine behind conn.execute: the rows the four queries of
   query_column_stats return for a column holding data[v] rows of value v *)

NULL == "<NULL>"

Values == {"x", "y"}

MaxCount == 2

Datasets == [Values \cup {NULL} -> 0..MaxCount]

RECURSIVE SumOver(_, _)
SumOver(d, S) ==
    IF S = {} THEN 0
    ELSE LET v == CHOOSE w \in S : TRUE IN d[v] + SumOver(d, S \ {v})

\* SELECT COUNT(*) FROM scan
EngineTotal(d) == SumOver(d, DOMAIN d)

\* SELECT COUNT(*) FROM scan WHERE col IS NULL
EngineNulls(d) == d[NULL]

Present(d) == {v \in DOMAIN d \ {NULL} : d[v] > 0}

\* SELECT COUNT(DISTINCT col) FROM scan
EngineUnique(d) == Cardinality(Present(d))

Min(a, b) == IF a <= b THEN a ELSE b

\* SELECT col, COUNT(*) ... WHERE col IS NOT NULL GROUP BY col ORDER BY count DESC LIMIT ?
\* every order of the groups by falling count (ties in any order), cut at the limit
EngineDistribution(d, limit) ==
    LET n == Cardinality(Present(d))
        rankings == {s \in [1..n -> Present(d)] :
                        /\ \A i, j \in 1..n : i # j => s[i] # s[j]
                        /\ \A i, j \in 1..n : i < j => d[s[i]] >= d[s[j]]}
    IN  {[i \in 1..Min(limit, n) |-> <<s[i], d[s[i]]>>] : s \in rankings}

-----------------------------------------------------------------------------
(* column_dist.py: query_column_stats and main *)

\* a literal piece of an f-string, and an interpolated {name}
Lit(text) == [from |-> "literal", text |-> <<text>>]

Interp(name, value) == [from |-> name, text |-> value]

\* f"SELECT COUNT(*) FROM {scan}"
TotalQuery(scan) == <<Lit("SELECT COUNT(*) FROM "), Interp("scan", scan)>>

\* f"SELECT COUNT(*) FROM {scan} WHERE {safe_col} IS NULL"
NullQuery(scan, safe_col) ==
    <<Lit("SELECT COUNT(*) FROM "), Interp("scan", scan), Lit(" WHERE "),
      Interp("safe_col", safe_col), Lit(" IS NULL")>>

\* f"SELECT COUNT(DISTINCT {safe_col}) FROM {scan}"
UniqueQuery(scan, safe_col) ==
    <<Lit("SELECT COUNT(DISTINCT "), Interp("safe_col", safe_col), Lit(") FROM "),
      Interp("scan", scan)>>

DistributionQuery(scan, safe_col) ==
    <<Lit("SELECT "), Interp("safe_col", safe_col), Lit(" AS value, COUNT(*) AS count FROM "),
      Interp("scan", scan), Lit(" WHERE "), Interp("safe_col", safe_col),
      Lit(" IS NOT NULL GROUP BY "), Interp("safe_col", safe_col),
      Lit(" ORDER BY count DESC LIMIT ?")>>

\* the parameters bound to the distribution query: (args.limit,)
DistributionParams(a) == <<a.limit>>

RECURSIVE SqlText(_)
\* the text handed to conn.execute
SqlText(parts) ==
    IF parts = <<>> THEN <<>> ELSE Head(parts).text \o SqlText(Tail(parts))

Execute(kind, parts, params, outcome) ==
    [kind |-> kind, parts |-> parts, text |-> SqlText(parts), params |-> params,
     outcome |-> outcome]

EngineError == Raise("duckdb.Error", <<"engine error">>)

\* no exception is in flight
NoException == [ok |-> TRUE]

NoLocals ==
    [source_type |-> None, scan |-> None, safe_col |-> None, total |-> None,
     nulls |-> None, unique_count |-> None, distribution |-> None]

\* validate_inputs without the check of the column name
validate_inputs_source_only(a, exists) ==
    IF ~exists
    THEN [ok |-> FALSE, message |-> <<"Error: Source not found: ">> \o a.source]
    ELSE [ok |-> TRUE]

\* returns an error message, or None: [ok |-> TRUE] stands for None
validate_inputs(a, exists) ==
    IF ~exists
    THEN [ok |-> FALSE, message |-> <<"Error: Source not found: ">> \o a.source]
    ELSE IF ~validate_identifier(a.column)
    THEN [ok |-> FALSE, message |-> <<"Error: Invalid column name: ">> \o a.column]
    ELSE [ok |-> TRUE]

\* main, lines 257-263
MainValidateInputs ==
    /\ pc = "main_validate"
    /\ LET error == validate_inputs(args, fs) IN
       IF ~error.ok
       THEN /\ stderr' = Append(stderr, error.message \o <<"\n">>)
            /\ exitCode' = <<1>>
            /\ pc' = "exit"
       ELSE /\ pc' = "qcs_get_connection"
            /\ UNCHANGED <<stderr, exitCode>>
    /\ UNCHANGED <<entry, args, fs, data, conn, opened, closed, locals, exc, queries,
                   written, ret>>

\* where control goes when query_column_stats returns (e = NoException) or raises e
AfterQcs(e) ==
    IF entry = "column_dist"
    THEN (IF e.ok THEN "main_build" ELSE "main_except")
    ELSE "done"

\* what the direct caller of query_column_stats gets
QcsResult(e, l) ==
    IF entry = "column_dist" THEN ret
    ELSE IF e.ok THEN Ok(<<l.total, l.nulls, l.unique_count, l.distribution>>)
    ELSE e

\* conn = get_connection(), outside the try
QcsGetConnection ==
    /\ pc = "qcs_get_connection"
    /\ \/ /\ conn' = "open"
          /\ opened' = opened + 1
          /\ pc' = "qcs_resolve"
          /\ UNCHANGED <<exc, ret>>
       \/ /\ exc' = EngineError
          /\ pc' = AfterQcs(EngineError)
          /\ ret' = QcsResult(EngineError, locals)
          /\ UNCHANGED <<conn, opened>>
    /\ UNCHANGED <<entry, args, fs, data, closed, locals, queries, exitCode, stderr, written>>

\* lines 118-120
QcsResolve ==
    /\ pc = "qcs_resolve"
    /\ LET source_type == IF args.type # None THEN args.type
                          ELSE infer_source_type(args.source)
           scan == build_scan_query(args.source, source_type)
           safe_col == quote_identifier(args.column)
       IN  IF ~scan.ok
           THEN /\ exc' = scan
                /\ pc' = "qcs_finally"
                /\ locals' = [locals EXCEPT !.source_type = source_type]
           ELSE IF ~safe_col.ok
           THEN /\ exc' = safe_col
                /\ pc' = "qcs_finally"
                /\ locals' = [locals EXCEPT !.source_type = source_type,
                                            !.scan = scan.value]
           ELSE /\ locals' = [locals EXCEPT !.source_type = source_type,
                                            !.scan = scan.value,
                                            !.safe_col = safe_col.value]
                /\ pc' = "qcs_total"
                /\ UNCHANGED exc
    /\ UNCHANGED <<entry, args, fs, data, conn, opened, closed, queries, exitCode,
                   stderr, written, ret>>

\* FetchOne without "if result is None: raise ValueError(msg)"
FetchOne_unchecked(kind, parts, field, value, msg, next) ==
    /\ \E outcome \in {"ok", "raise", "none"} :
        /\ queries' = Append(queries, Execute(kind, parts, <<>>, outcome))
        /\ IF outcome = "raise"
           THEN exc' = EngineError /\ pc' = "qcs_finally" /\ UNCHANGED locals
           ELSE IF outcome = "none"
           THEN pc' = next /\ UNCHANGED <<exc, locals>>
           ELSE locals' = [locals EXCEPT ![field] = value] /\ pc' = next /\ UNCHANGED exc
    /\ UNCHANGED <<entry, args, fs, data, conn, opened, closed, exitCode, stderr,
                   written, ret>>

\* result = conn.execute(sql).fetchone(); if result is None: raise ValueError(msg);
\* field = result[0]
FetchOne(kind, parts, field, value, msg, next) ==
    /\ \E outcome \in {"ok", "raise", "none"} :
        /\ queries' = Append(queries, Execute(kind, parts, <<>>, outcome))
        /\ IF outcome = "raise"
           THEN exc' = EngineError /\ pc' = "qcs_finally" /\ UNCHANGED locals
           ELSE IF outcome = "none"
           THEN exc' = Raise("ValueError", <<msg>>) /\ pc' = "qcs_finally" /\ UNCHANGED locals
           ELSE locals' = [locals EXCEPT ![field] = value] /\ pc' = next /\ UNCHANGED exc
    /\ UNCHANGED <<entry, args, fs, data, conn, opened, closed, exitCode, stderr,
                   written, ret>>

\* lines 122-126
QcsTotal ==
    /\ pc = "qcs_total"
    /\ FetchOne("total", TotalQuery(locals.scan), "total", EngineTotal(data),
                "Failed to get total count", "qcs_nulls")

\* lines 128-134
QcsNulls ==
    /\ pc = "qcs_nulls"
    /\ FetchOne("nulls", NullQuery(locals.scan, locals.safe_col), "nulls",
                EngineNulls(data), "Failed to get null count", "qcs_unique")

\* lines 136-142
QcsUnique ==
    /\ pc = "qcs_unique"
    /\ FetchOne("unique", UniqueQuery(locals.scan, locals.safe_col), "unique_count",
                EngineUnique(data), "Failed to get unique count", "qcs_distribution")

\* lines 144-158
QcsDistribution ==
    /\ pc = "qcs_distribution"
    /\ LET parts == DistributionQuery(locals.scan, locals.safe_col)
           params == DistributionParams(args)
       IN  \/ /\ queries' = Append(queries, Execute("distribution", parts, params, "raise"))
              /\ exc' = EngineError
              /\ UNCHANGED locals
           \/ /\ queries' = Append(queries, Execute("distribution", parts, params, "ok"))
              /\ \E rows \in EngineDistribution(data, args.limit) :
                    locals' = [locals EXCEPT !.distribution = rows]
              /\ UNCHANGED exc
    /\ pc' = "qcs_finally"
    /\ UNCHANGED <<entry, args, fs, data, conn, opened, closed, exitCode, stderr,
                   written, ret>>

\* conn.close() as the last statement of the try block instead of a finally
QcsFinally_success_only ==
    /\ pc = "qcs_finally"
    /\ IF exc.ok
       THEN conn' = "closed" /\ closed' = closed + 1
       ELSE UNCHANGED <<conn, closed>>
    /\ pc' = AfterQcs(exc)
    /\ ret' = QcsResult(exc, locals)
    /\ UNCHANGED <<entry, args, fs, data, opened, locals, exc, queries, exitCode,
                   stderr, written>>

\* finally: conn.close(), then the return or the exception goes to the caller
QcsFinally ==
    /\ pc = "qcs_finally"
    /\ conn' = "closed"
    /\ closed' = closed + 1
    /\ pc' = AfterQcs(exc)
    /\ ret' = QcsResult(exc, locals)
    /\ UNCHANGED <<entry, args, fs, data, opened, locals, exc, queries, exitCode,
                   stderr, written>>

\* the handler returning 0
MainExcept_zero ==
    /\ pc = "main_except"
    /\ stderr' = Append(stderr, <<"Error analyzing column: ">> \o exc.message \o <<"\n">>)
    /\ exitCode' = <<0>>
    /\ exc' = NoException
    /\ pc' = "exit"
    /\ UNCHANGED <<entry, args, fs, data, conn, opened, closed, locals, queries,
                   written, ret>>

\* except Exception as e, lines 268-270
MainExcept ==
    /\ pc = "main_except"
    /\ stderr' = Append(stderr, <<"Error analyzing column: ">> \o exc.message \o <<"\n">>)
    /\ exitCode' = <<1>>
    /\ exc' = NoException
    /\ pc' = "exit"
    /\ UNCHANGED <<entry, args, fs, data, conn, opened, closed, locals, queries,
                   written, ret>>

\* str(value) if value is not None else "<NULL>"; the values of the model are
\* shorter than 50 characters, so none is cut to 47 characters and "..."
DisplayValue(value) == IF value = NULL THEN "<NULL>" ELSE value

RECURSIVE DistRows(_, _, _)
\* dist_rows after the first i entries of the loop: pct, cumulative += pct and
\* the row [display_value, f"{count:,}", f"{pct:.2f}%", f"{cumulative:.2f}%"]
DistRows(distribution, total, i) ==
    IF i = 0 THEN <<>>
    ELSE LET before == DistRows(distribution, total, i - 1)
             cumulative == IF i = 1 THEN Zero ELSE before[i - 1][4].of
             pct == Pct(distribution[i][2], total)
         IN  Append(before, <<DisplayValue(distribution[i][1]),
                              Fmt(",", distribution[i][2]),
                              Fmt(".2f", pct),
                              Fmt(".2f", FloatAdd(cumulative, pct))>>)

\* build_distribution_rows with top_value_pct taken from every entry in turn
build_distribution_rows_last(distribution, total) ==
    LET dist_rows == DistRows(distribution, total, Len(distribution)) IN
    [dist_rows |-> dist_rows,
     top_value_pct |-> IF dist_rows = <<>> THEN Zero ELSE dist_rows[Len(dist_rows)][3].of]

\* top_value_pct is the pct of the entry with i == 0, and 0.0 without entries
build_distribution_rows(distribution, total) ==
    LET dist_rows == DistRows(distribution, total, Len(distribution)) IN
    [dist_rows |-> dist_rows,
     top_value_pct |-> IF dist_rows = <<>> THEN Zero ELSE dist_rows[1][3].of]

\* the report build_report assembles
build_report(a, total, nulls, unique_count, dist_rows, top_value_pct) ==
    LET non_null == total - nulls
        cardinality == assess_cardinality(unique_count, total)
        null_pct == Pct(nulls, total)
        observations == generate_observations(total, nulls, unique_count, top_value_pct)
    IN  [title |-> <<"Column Distribution: ">> \o a.column,
         metadata |-> [source |-> a.source, column |-> a.column],
         summary |-> [total |-> total, nulls |-> nulls, null_pct |-> Fmt(".2f", null_pct),
                      non_null |-> non_null, unique_count |-> unique_count,
                      cardinality |-> cardinality],
         truncated |-> unique_count > a.limit,
         distribution |-> dist_rows,
         \* if observations: report.add_section("Observations", "")
         sections |-> <<"Summary", "Distribution">>
                        \o (IF observations # <<>> THEN <<"Observations">> ELSE <<>>),
         observations |-> observations]

\* lines 272-279
MainReport ==
    /\ pc = "main_build"
    /\ LET built == build_distribution_rows(locals.distribution, locals.total) IN
       ret' = build_report(args, locals.total, locals.nulls, locals.unique_count,
                           built.dist_rows, built.top_value_pct)
    /\ written' = written + 1
    /\ exitCode' = <<0>>
    /\ pc' = "exit"
    /\ UNCHANGED <<entry, args, fs, data, conn, opened, closed, locals, exc, queries,
                   stderr>>

-----------------------------------------------------------------------------
(* connect.py: main, with get_table_info of connection.py *)

\* f"DESCRIBE SELECT * FROM {scan}"
DescribeQuery(scan) == <<Lit("DESCRIBE SELECT * FROM "), Interp("scan", scan)>>

\* lines 60-64
ConnectValidate ==
    /\ pc = "connect_validate"
    /\ IF ~fs
       THEN /\ stderr' = Append(stderr, <<"Error: Source not found: ">> \o args.source \o <<"\n">>)
            /\ exitCode' = <<1>>
            /\ pc' = "exit"
       ELSE /\ pc' = "connect_get_connection"
            /\ UNCHANGED <<stderr, exitCode>>
    /\ UNCHANGED <<entry, args, fs, data, conn, opened, closed, locals, exc, queries,
                   written, ret>>

\* conn = None; try: conn = get_connection()
ConnectGetConnection ==
    /\ pc = "connect_get_connection"
    /\ \/ /\ conn' = "open"
          /\ opened' = opened + 1
          /\ pc' = "connect_table_info"
          /\ UNCHANGED exc
       \/ /\ exc' = EngineError
          /\ pc' = "connect_except"
          /\ UNCHANGED <<conn, opened>>
    /\ UNCHANGED <<entry, args, fs, data, closed, locals, queries, exitCode, stderr,
                   written, ret>>

\* source_type = args.type or infer_source_type(args.source);
\* info = get_table_info(conn, args.source, source_type)
ConnectTableInfo ==
    /\ pc = "connect_table_info"
    /\ LET source_type == IF args.type # None THEN args.type
                          ELSE infer_source_type(args.source)
           scan == build_scan_query(args.source, source_type)
       IN  IF ~scan.ok
           THEN /\ exc' = scan
                /\ pc' = "connect_except"
                /\ locals' = [locals EXCEPT !.source_type = source_type]
                /\ UNCHANGED queries
           ELSE
             LET count(o) == Execute("total", TotalQuery(scan.value), <<>>, o)
                 describe(o) == Execute("describe", DescribeQuery(scan.value), <<>>, o)
                 found == [locals EXCEPT !.source_type = source_type, !.scan = scan.value]
             IN  \/ /\ queries' = Append(queries, count("raise"))
                    /\ exc' = EngineError
                    /\ pc' = "connect_except"
                    /\ locals' = found
                 \/ \E o \in {"ok", "none"} :
                       \* row_count = result[0] if result else 0
                       LET row_count == IF o = "ok" THEN EngineTotal(data) ELSE 0 IN
                       \/ /\ queries' = queries \o <<count(o), describe("raise")>>
                          /\ exc' = EngineError
                          /\ pc' = "connect_except"
                          /\ locals' = found
                       \/ /\ queries' = queries \o <<count(o), describe("ok")>>
                          /\ locals' = [found EXCEPT !.total = row_count]
                          /\ pc' = "connect_finally"
                          /\ UNCHANGED exc
    /\ UNCHANGED <<entry, args, fs, data, conn, opened, closed, exitCode, stderr,
                   written, ret>>

\* except Exception as e: write the message; return 1 waits for the finally
ConnectExcept ==
    /\ pc = "connect_except"
    /\ stderr' = Append(stderr, <<"Error connecting to source: ">> \o exc.message \o <<"\n">>)
    /\ pc' = "connect_finally"
    /\ UNCHANGED <<entry, args, fs, data, conn, opened, closed, locals, exc, queries,
                   exitCode, written, ret>>

\* finally: if conn is not None: conn.close()
ConnectFinally ==
    /\ pc = "connect_finally"
    /\ IF conn # "none"
       THEN conn' = "closed" /\ closed' = closed + 1
       ELSE UNCHANGED <<conn, closed>>
    /\ IF exc.ok
       THEN pc' = "connect_report" /\ UNCHANGED <<exitCode, exc>>
       ELSE pc' = "exit" /\ exitCode' = <<1>> /\ exc' = NoException
    /\ UNCHANGED <<entry, args, fs, data, opened, locals, queries, stderr, written, ret>>

\* lines 79-101
ConnectReport ==
    /\ pc = "connect_report"
    /\ ret' = [title |-> <<"Data Connection Report">>, type |-> locals.source_type,
               row_count |-> locals.total]
    /\ written' = written + 1
    /\ exitCode' = <<0>>
    /\ pc' = "exit"
    /\ UNCHANGED <<entry, args, fs, data, conn, opened, closed, locals, exc, queries,
                   stderr>>

-----------------------------------------------------------------------------
(* The programs: eda-column-dist (main of column_dist.py), a direct call of
   query_column_stats, and the data connector (main of connect.py) *)

\* "d.csv", "d'.parquet", "d.db", "d", "s://d.json"
ProgramSources ==
    {<<"d">> \o dot_csv, <<"d", "'">> \o dot_parquet, <<"d">> \o dot_db, <<"d">>,
     <<"s">> \o url_mark \o <<"d">> \o dot_json}

\* "a", "a\n", "1", "a;"
ProgramColumns == {<<"a">>, <<"a", "\n">>, <<"1">>, <<"a", ";">>}

\* a column "status" of 1000 rows
StatusColumn == <<"s", "t", "a", "t", "u", "s">>

StatusData ==
    [v \in {"completed", "pending", "cancelled", "refunded", NULL} |->
        CASE v = "completed" -> 800
          [] v = "pending" -> 100
          [] v = "cancelled" -> 50
          [] v = "refunded" -> 40
          [] OTHER -> 10]

\* --type: choices=["parquet", "csv", "json"], default None
TypeChoices == {None, "parquet", "csv", "json"}

DefaultLimit == 50

MaxLimit == 1

Limits == 1..MaxLimit \cup {DefaultLimit}

StartOf(e) ==
    IF e = "column_dist" THEN "main_validate"
    ELSE IF e = "query_column_stats" THEN "qcs_get_connection"
    ELSE "connect_validate"

Init ==
    /\ entry \in {"column_dist", "query_column_stats", "connect"}
    /\ args \in [source : ProgramSources, column : ProgramColumns \cup {StatusColumn},
                 type : TypeChoices, limit : Limits]
    \* connect.py has no --column and no --limit
    /\ entry = "connect" => args.column = <<"a">> /\ args.limit = DefaultLimit
    /\ fs \in BOOLEAN
    /\ data \in IF args.column = StatusColumn THEN {StatusData} ELSE Datasets
    /\ pc = StartOf(entry)
    /\ conn = "none"
    /\ opened = 0
    /\ closed = 0
    /\ locals = NoLocals
    /\ exc = NoException
    /\ queries = <<>>
    /\ exitCode = <<>>
    /\ stderr = <<>>
    /\ written = 0
    /\ ret = None

Next ==
    \/ MainValidateInputs
    \/ QcsGetConnection
    \/ QcsResolve
    \/ QcsTotal
    \/ QcsNulls
    \/ QcsUnique
    \/ QcsDistribution
    \/ QcsFinally
    \/ MainExcept
    \/ MainReport
    \/ ConnectValidate
    \/ ConnectGetConnection
    \/ ConnectTableInfo
    \/ ConnectExcept
    \/ ConnectFinally
    \/ ConnectReport

Spec == Init /\ [][Next]_vars

-----------------------------------------------------------------------------
(* Calls of the pure functions on inputs drawn from bounded sets *)

Idle(e, a) ==
    /\ entry = e
    /\ args = a
    /\ fs = TRUE
    /\ data = [v \in Values \cup {NULL} |-> 0]
    /\ pc = "call"
    /\ conn = "none"
    /\ opened = 0
    /\ closed = 0
    /\ locals = NoLocals
    /\ exc = NoException
    /\ queries = <<>>
    /\ exitCode = <<>>
    /\ stderr = <<>>
    /\ written = 0
    /\ ret = None

Return(fn, value) ==
    /\ ret' = [fn |-> fn, value |-> value]
    /\ pc' = "returned"
    /\ UNCHANGED <<entry, args, fs, data, conn, opened, closed, locals, exc, queries,
                   exitCode, stderr, written>>

Returned(fn) == pc = "returned" /\ ret.fn = fn

(* validate_identifier, quote_identifier *)

MaxNameLen == 3

NameChars == {"a", "Z", "_", "1", " ", ";", "'", "\n"}

col_1 == <<"c","o","l","_","1">>

one_col == <<"1","c","o","l">>

col_drop == <<"c","o","l",";"," ","D","R","O","P"," ","T","A","B","L","E"," ","x">>

Names == SeqsUpTo(NameChars, MaxNameLen) \cup {col_1, one_col, col_drop}

InitIdentifier == \E name \in Names : Idle("identifier", [name |-> name])

CallValidateIdentifier ==
    /\ pc = "call"
    /\ entry = "identifier"
    /\ Return("validate_identifier", validate_identifier(args.name))

CallQuoteIdentifier ==
    /\ pc = "call"
    /\ entry = "identifier"
    /\ Return("quote_identifier", quote_identifier(args.name))

NextIdentifier == CallValidateIdentifier \/ CallQuoteIdentifier

SpecIdentifier == InitIdentifier /\ [][NextIdentifier]_vars

(* infer_source_type, build_scan_query *)

MaxStem == 2

StemChars == {"d", "'"}

Suffixes ==
    {<<>>, dot_parquet, dot_csv, dot_json, dot_jsonl, dot_db, dot_duckdb,
     <<".","P","a","r","q","u","e","t">>, <<".","C","S","V">>, <<".","J","s","o","n">>,
     <<".","J","S","O","N","L">>, <<".","D","B">>, <<".","D","u","c","k","D","B">>,
     <<".","t","x","t">>, <<"c","s","v">>, dot_csv \o <<".","g","z">>,
     dot_parquet \o <<"'">>}

Sources ==
    {prefix \o stem \o suffix :
        prefix \in {<<>>, <<"s">> \o url_mark},
        stem \in SeqsUpTo(StemChars, MaxStem),
        suffix \in Suffixes}

SourceTypes == {None, "parquet", "csv", "json", "database", "unknown", "xml", ""}

InitSource ==
    \E source \in Sources, source_type \in SourceTypes :
        Idle("source", [source |-> source, source_type |-> source_type])

CallInferSourceType ==
    /\ pc = "call"
    /\ entry = "source"
    /\ Return("infer_source_type", infer_source_type(args.source))

CallBuildScanQuery ==
    /\ pc = "call"
    /\ entry = "source"
    /\ Return("build_scan_query", build_scan_query(args.source, args.source_type))

NextSource == CallInferSourceType \/ CallBuildScanQuery

SpecSource == InitSource /\ [][NextSource]_vars

(* assess_cardinality, generate_observations *)

Radius == 1

Near(k) == {n \in (k - Radius)..(k + Radius) : n >= 0}

UniqueCounts == {0, 5, 150, 999} \cup Near(10) \cup Near(100)

\* totals around the places where unique_count / total crosses 1, 0.5 and 0.01
TotalsFor(u) == {0, 1000} \cup Near(u) \cup Near(2 * u) \cup Near(100 * u)

\* null counts around the places where nulls / total * 100 crosses 0, 1, 5 and 100
NullsFor(t) == {n \in {0, t} \cup Near(t \div 100) \cup Near(t \div 20) : n <= t}

\* top value percentages around 80 and 95, in tenths of a percent
TopValueTenths == {0, 1000} \cup Near(800) \cup Near(950)

InitAnalyzer ==
    \E unique_count \in UniqueCounts :
        \E total \in TotalsFor(unique_count) :
            \E nulls \in NullsFor(total), tenths \in TopValueTenths :
                Idle("analyzer", [total |-> total, nulls |-> nulls,
                                  unique_count |-> unique_count,
                                  tenths |-> tenths,
                                  top_value_pct |-> FloatDiv(tenths, 10)])

CallAssessCardinality ==
    /\ pc = "call"
    /\ entry = "analyzer"
    /\ Return("assess_cardinality", assess_cardinality(args.unique_count, args.total))

CallGenerateObservations ==
    /\ pc = "call"
    /\ entry = "analyzer"
    /\ Return("generate_observations",
              generate_observations(args.total, args.nulls, args.unique_count,
                                    args.top_value_pct))

\* build_report for the counts, for a source d.csv, a column a and the default
\* limit, with no distribution rows
CallBuildReport ==
    /\ pc = "call"
    /\ entry = "analyzer"
    /\ Return("build_report",
              build_report([source |-> <<"d">> \o dot_csv, column |-> <<"a">>,
                            type |-> None, limit |-> DefaultLimit],
                           args.total, args.nulls, args.unique_count, <<>>,
                           args.top_value_pct))

NextAnalyzer == CallAssessCardinality \/ CallGenerateObservations \/ CallBuildReport

SpecAnalyzer == InitAnalyzer /\ [][NextAnalyzer]_vars

(* build_distribution_rows *)

RowValues == {"x", "y", "z"}

MaxRowCount == 7

RowDatasets == {d \in [RowValues \cup {NULL} -> 0..MaxRowCount] : d[NULL] <= 1}

\* the distribution and the counts query_column_stats returns for a column
InitRows ==
    \E d \in RowDatasets, limit \in 1..Cardinality(RowValues) :
        \E distribution \in EngineDistribution(d, limit) :
            Idle("rows", [total |-> EngineTotal(d), nulls |-> EngineNulls(d),
                          unique_count |-> EngineUnique(d), limit |-> limit,
                          distribution |-> distribution])

CallBuildDistributionRows ==
    /\ pc = "call"
    /\ entry = "rows"
    /\ Return("build_distribution_rows",
              build_distribution_rows(args.distribution, args.total))

NextRows == CallBuildDistributionRows

SpecRows == InitRows /\ [][NextRows]_vars

-----------------------------------------------------------------------------
(* Properties *)

\* C1: a connection that get_connection returned is closed exactly once before
\* query_column_stats (or main of connect.py) is left, whether it returns or
\* raises; no connection is closed twice or left open.
C1_ConnectionClosedOnce ==
    /\ opened <= 1
    /\ closed <= opened
    /\ conn = "none" <=> opened = 0
    /\ conn = "open" <=> (opened = 1 /\ closed = 0)
    /\ conn = "closed" <=> closed = 1
    /\ pc \in {"main_build", "main_except", "exit", "done", "connect_report"} =>
          closed = opened

C1_Witness ==
    /\ entry = "query_column_stats"
    /\ pc = "done"
    /\ ~validate_identifier(args.column)
    /\ queries = <<>>
    /\ ~ret.ok
    /\ ret.message[1] = "Invalid identifier: "
    /\ opened = 1
    /\ closed = 1

\* C2: in main of column_dist.py a missing source or a column name that
\* validate_identifier rejects ends main with a non-zero exit code before any
\* connection is opened and before any query is issued.
C2_ChecksBeforeConnection ==
    (entry = "column_dist" /\ (~fs \/ ~validate_identifier(args.column))) =>
        /\ pc \in {"main_validate", "exit"}
        /\ opened = 0
        /\ conn = "none"
        /\ queries = <<>>
        /\ pc = "exit" => (exitCode # <<>> /\ exitCode[1] # 0 /\ written = 0)

C2_Witness ==
    /\ entry = "column_dist"
    /\ pc = "exit"
    /\ fs
    /\ ~validate_identifier(args.column)
    /\ exitCode = <<1>>
    /\ opened = 0
    /\ queries = <<>>

\* the source type main resolves is none of the three scannable ones
Unsupported ==
    LET source_type == IF args.type # None THEN args.type
                       ELSE infer_source_type(args.source)
    IN  source_type \notin {"parquet", "csv", "json"}

\* C3: in main of column_dist.py a report is built and written only after all
\* four queries succeeded; if validation fails, the source type is unsupported
\* or a query fails, main returns non-zero, writes no report and repeats no
\* query.
C3_AllOrNothing ==
    entry = "column_dist" =>
        /\ written <= 1
        /\ (pc = "main_build" \/ written = 1) =>
              /\ fs
              /\ validate_identifier(args.column)
              /\ ~Unsupported
              /\ [i \in DOMAIN queries |-> queries[i].kind]
                    = <<"total", "nulls", "unique", "distribution">>
              /\ \A i \in DOMAIN queries : queries[i].outcome = "ok"
        /\ written = 1 => (pc = "exit" /\ exitCode = <<0>>)
        /\ pc = "exit" => (exitCode # <<>> /\ (exitCode[1] = 0 <=> written = 1))
        /\ (/\ pc = "exit"
            /\ \/ ~fs
               \/ ~validate_identifier(args.column)
               \/ Unsupported
               \/ \E i \in DOMAIN queries : queries[i].outcome # "ok") =>
              (exitCode[1] # 0 /\ written = 0)
        /\ \A i, j \in DOMAIN queries : i < j =>
              (queries[i].kind # queries[j].kind /\ queries[i].outcome = "ok")

C3_Witness ==
    /\ entry = "column_dist"
    /\ pc = "exit"
    /\ Len(queries) = 4
    /\ queries[4].outcome = "raise"
    /\ exitCode = <<1>>
    /\ written = 0

\* C4: in every query that query_column_stats executes, the column name is
\* present only as quote_identifier's result for a name validate_identifier
\* accepted; the limit is never part of the SQL text and is the one bound
\* parameter of the distribution query.
C4_OnlyValidatedIdentifiers ==
    \A i \in DOMAIN queries :
        LET q == queries[i] IN
        /\ \A k \in DOMAIN q.parts :
              /\ q.parts[k].from \in {"literal", "scan", "safe_col"}
              /\ q.parts[k].from = "safe_col" =>
                    /\ validate_identifier(args.column)
                    /\ q.parts[k].text = <<"\"">> \o args.column \o <<"\"">>
        /\ q.kind \in {"nulls", "unique", "distribution"} =>
              \E k \in DOMAIN q.parts : q.parts[k].from = "safe_col"
        /\ IF q.kind = "distribution"
           THEN /\ q.params = <<args.limit>>
                /\ q.parts[Len(q.parts)] = Lit(" ORDER BY count DESC LIMIT ?")
           ELSE q.params = <<>>

C4_Witness ==
    /\ entry = "query_column_stats"
    /\ pc = "done"
    /\ Len(queries) = 4
    /\ queries[4].kind = "distribution"
    /\ queries[4].params = <<1>>
    /\ args.column = <<"a", "\n">>
    /\ Contains(queries[4].text, <<"\"", "a", "\n", "\"">>)

\* non-empty, first character a letter or "_", every other a letter, digit or "_"
IsSimpleIdentifier(name) ==
    /\ Len(name) >= 1
    /\ name[1] \in Letters \cup {"_"}
    /\ \A i \in 2..Len(name) : name[i] \in Letters \cup Digits \cup {"_"}

\* C5: validate_identifier(name) is true exactly for the simple identifiers; any
\* other character anywhere in name, a trailing newline included, makes it
\* false; "col_1" is accepted, "1col" and "col; DROP TABLE x" are rejected.
C5_ValidateIdentifier ==
    Returned("validate_identifier") =>
        /\ ret.value <=> IsSimpleIdentifier(args.name)
        /\ args.name = col_1 => ret.value
        /\ args.name \in {one_col, col_drop} => ~ret.value

\* the branches of assess_cardinality as the claim orders them, first match wins
ClaimedCardinality(unique_count, total, very_high) ==
    CASE total = 0 -> "Empty"
      [] total # 0 /\ unique_count <= 10 -> "Low"
      [] total # 0 /\ unique_count > 10
            /\ (unique_count <= 100 \/ unique_count * 100 < total) -> "Medium"
      [] total # 0 /\ unique_count > 100 /\ unique_count * 100 >= total
            /\ unique_count * 2 < total -> "High"
      [] OTHER -> very_high

CardinalityExamples(very_high) ==
    /\ args.unique_count = 5 /\ args.total = 1000 => ret.value = "Low"
    /\ args.unique_count = 0 /\ args.total = 0 => ret.value = "Empty"
    /\ args.unique_count = 999 /\ args.total = 1000 => ret.value = very_high

\* C6 as claimed: assess_cardinality follows the ordered branches and its last
\* class is "Very High (possible identifier)".
C6_Original ==
    Returned("assess_cardinality") =>
        /\ ret.value = ClaimedCardinality(args.unique_count, args.total,
                                          "Very High (possible identifier)")
        /\ CardinalityExamples("Very High (possible identifier)")

\* C6, amended: assess_cardinality is total into {Empty, Low, Medium, High,
\* "Very High (possibly unique identifier)"}, follows the ordered branches
\* (total = 0, unique_count <= 10, unique_count <= 100 or ratio < 0.01,
\* ratio < 0.5, otherwise), and (5, 1000) is Low, (0, 0) is Empty and
\* (999, 1000) is "Very High (possibly unique identifier)".
C6_AssessCardinality ==
    Returned("assess_cardinality") =>
        /\ ret.value \in {"Empty", "Low", "Medium", "High",
                          "Very High (possibly unique identifier)"}
        /\ ret.value = ClaimedCardinality(args.unique_count, args.total,
                                          "Very High (possibly unique identifier)")
        /\ CardinalityExamples("Very High (possibly unique identifier)")

C6_Witness ==
    /\ Returned("assess_cardinality")
    /\ args.unique_count = 999
    /\ args.total = 1000
    /\ ret.value = "Very High (possibly unique identifier)"

\* number of single quotes among the first i - 1 characters of s
QuotesBefore(s, i) == Cardinality({j \in 1..(i - 1) : s[j] = "'"})

\* o is s with every single quote doubled
IsDoubled(s, o) ==
    /\ Len(o) = Len(s) + QuotesBefore(s, Len(s) + 1)
    /\ \A i \in 1..Len(s) :
          LET at == i + QuotesBefore(s, i) IN
          /\ o[at] = s[i]
          /\ s[i] = "'" => o[at + 1] = "'"

ScanFunction(source_type) ==
    CASE source_type = "parquet" -> "parquet_scan('"
      [] source_type = "csv" -> "read_csv_auto('"
      [] source_type = "json" -> "read_json_auto('"

\* C7: build_scan_query uses the explicit source_type when one is given, even
\* against the suffix, and the inferred type otherwise; parquet, csv and json
\* give parquet_scan('S'), read_csv_auto('S'), read_json_auto('S') with S the
\* source with every single quote doubled; every other type raises.
C7_BuildScanQuery ==
    Returned("build_scan_query") =>
        LET source_type == IF args.source_type # None THEN args.source_type
                           ELSE infer_source_type(args.source)
            r == ret.value
        IN  IF source_type \in {"parquet", "csv", "json"}
            THEN /\ r.ok
                 /\ Len(r.value) >= 2
                 /\ r.value[1] = ScanFunction(source_type)
                 /\ r.value[Len(r.value)] = "')"
                 /\ IsDoubled(args.source, SubSeq(r.value, 2, Len(r.value) - 1))
            ELSE /\ ~r.ok
                 /\ r.error = "ValueError"

C7_Witness ==
    /\ Returned("build_scan_query")
    /\ args.source_type = "csv"
    /\ infer_source_type(args.source) = "parquet"
    /\ Contains(args.source, <<"'">>)
    /\ ret.value.ok
    /\ ret.value.value[1] = "read_csv_auto('"

SameIgnoringCase(a, b) ==
    \/ a = b
    \/ \E i \in DOMAIN UpperCase : {a, b} = {UpperCase[i], LowerCase[i]}

\* s ends with suffix, letters compared without their case
HasSuffix(s, suffix) ==
    /\ Len(s) >= Len(suffix)
    /\ \A i \in 1..Len(suffix) :
          SameIgnoringCase(s[Len(s) - Len(suffix) + i], suffix[i])

\* C8: infer_source_type is case-insensitive and ordered: .parquet, .csv,
\* .json or .jsonl, .db or .duckdb, then "://" gives database, else unknown;
\* a suffix wins over "://".
C8_InferSourceType ==
    Returned("infer_source_type") =>
        LET source == args.source IN
        ret.value =
            IF HasSuffix(source, dot_parquet) THEN "parquet"
            ELSE IF HasSuffix(source, dot_csv) THEN "csv"
            ELSE IF HasSuffix(source, dot_json) \/ HasSuffix(source, dot_jsonl) THEN "json"
            ELSE IF HasSuffix(source, dot_db) \/ HasSuffix(source, dot_duckdb) THEN "database"
            ELSE IF Contains(source, url_mark) THEN "database"
            ELSE "unknown"

C8_Witness ==
    /\ Returned("infer_source_type")
    /\ Contains(args.source, url_mark)
    /\ HasSuffix(args.source, dot_csv)
    /\ ~EndsWith(args.source, dot_csv)
    /\ ret.value = "csv"

\* the places in a list of observations whose text starts with one of texts
ObservationsOf(observations, texts) ==
    {i \in DOMAIN observations : observations[i][1] \in texts}

MissingTexts ==
    {"No missing data", "Minimal missing data (", "Some missing data (",
     "Significant missing data ("}

\* C9: for 0 <= nulls <= total, generate_observations gives exactly one
\* missing-data observation: "No missing data" when null_pct = 0, "Minimal"
\* when null_pct < 1, "Some ... consider imputation" when null_pct < 5, else
\* "Significant"; exactly 1 is "Some", exactly 5 is "Significant"; null_pct is
\* within [0, 100] and total = 0 gives null_pct = 0.
C9_MissingData ==
    (Returned("generate_observations") /\ 0 <= args.nulls /\ args.nulls <= args.total) =>
        LET found == ObservationsOf(ret.value, MissingTexts)
            o == ret.value[CHOOSE i \in found : TRUE]
        IN  /\ Cardinality(found) = 1
            /\ o[1] = IF args.total = 0 \/ args.nulls = 0 THEN "No missing data"
                      ELSE IF args.nulls * 100 < args.total THEN "Minimal missing data ("
                      ELSE IF args.nulls * 100 < 5 * args.total THEN "Some missing data ("
                      ELSE "Significant missing data ("
            /\ o[1] = "Some missing data (" => o[3] = "%) - consider imputation strategy"
            /\ Len(o) > 1 =>
                  /\ FloatLt(Zero, o[2].of)
                  /\ FloatLe(o[2].of, FromInt(100))

C9_Witness ==
    /\ Returned("generate_observations")
    /\ args.total > 0
    /\ args.nulls * 100 = args.total
    /\ \E i \in DOMAIN ret.value : ret.value[i][1] = "Some missing data ("

ExtremeText == "Extreme imbalance: top value represents "

ImbalanceText == "Class imbalance detected: top value represents "

\* C10: generate_observations gives at most one imbalance observation:
\* "Extreme imbalance" iff top_value_pct > 95, "Class imbalance detected" iff
\* 80 < top_value_pct <= 95, none iff top_value_pct <= 80.
C10_Imbalance ==
    Returned("generate_observations") =>
        LET p == <<args.tenths, 10>>
            found == ObservationsOf(ret.value, {ExtremeText, ImbalanceText})
            has(text) == \E i \in found : ret.value[i][1] = text
        IN  /\ Cardinality(found) <= 1
            /\ has(ExtremeText) <=> p[1] > 95 * p[2]
            /\ has(ImbalanceText) <=> (p[1] > 80 * p[2] /\ p[1] <= 95 * p[2])
            /\ found = {} <=> p[1] <= 80 * p[2]

C10_Witness ==
    /\ Returned("generate_observations")
    /\ args.tenths = 950
    /\ args.top_value_pct = FromInt(95)
    /\ \E i \in DOMAIN ret.value : ret.value[i][1] = ImbalanceText
    /\ ~\E i \in DOMAIN ret.value : ret.value[i][1] = ExtremeText

-----------------------------------------------------------------------------
\* 100.0 plus k units in its last place (2^-46)
HundredPlus(k) == [m |-> BitsAdd(FromInt(100).m, BitsOf(k), 0), e |-> FromInt(100).e]

\* what every reading of C11 has in common: the cumulative percentages are the
\* running sum of the percentages, never fall, stay below 100 when the limit
\* cut the distribution, and top_value_pct is the first percentage
RowsRunningSum(rows, top_value_pct) ==
    LET n == Len(rows)
        pct(i) == rows[i][3].of
        cumulative(i) == rows[i][4].of
    IN  /\ n = Len(args.distribution)
        /\ \A i \in 1..n :
              /\ rows[i][3].format = ".2f" /\ rows[i][4].format = ".2f"
              \* count * 100 / total, between the integers around it
              /\ FloatLe(FromInt((args.distribution[i][2] * 100) \div args.total), pct(i))
              /\ FloatLe(pct(i),
                         FromInt((args.distribution[i][2] * 100 + args.total - 1)
                                     \div args.total))
              /\ cumulative(i) = IF i = 1 THEN pct(1)
                                 ELSE FloatAdd(cumulative(i - 1), pct(i))
              /\ i < n => FloatLe(cumulative(i), cumulative(i + 1))
        /\ (n > 0 /\ args.unique_count > args.limit) => FloatLt(cumulative(n), FromInt(100))
        /\ top_value_pct = IF n = 0 THEN Zero ELSE pct(1)

\* C11 as stated: the final cumulative percentage is at most 100
C11_Original ==
    Returned("build_distribution_rows") =>
        LET rows == ret.value.dist_rows IN
        /\ RowsRunningSum(rows, ret.value.top_value_pct)
        /\ rows # <<>> => FloatLe(rows[Len(rows)][4].of, FromInt(100))

\* C11: the cumulative percentages of build_distribution_rows are the running
\* sum of count / total * 100 in input order and never fall; the final value is
\* at most 100 up to floating-point rounding (with n entries never more than
\* (n + 4) * 2^-47 above 100) and is strictly below 100 when the limit cut the
\* distribution; top_value_pct is the first entry's percentage, 0 without entries
C11_CumulativePercentages ==
    Returned("build_distribution_rows") =>
        LET rows == ret.value.dist_rows IN
        /\ RowsRunningSum(rows, ret.value.top_value_pct)
        /\ rows # <<>> =>
              FloatLe(rows[Len(rows)][4].of, HundredPlus((Len(rows) + 4) \div 2))

\* a full distribution whose cumulative percentage ends above 100
C11_Witness ==
    /\ Returned("build_distribution_rows")
    /\ LET rows == ret.value.dist_rows IN
       /\ Len(rows) > 1
       /\ args.unique_count <= args.limit
       /\ FloatLt(FromInt(100), rows[Len(rows)][4].of)
-----------------------------------------------------------------------------
\* C12: for the 1000-row column "status" with completed 800, pending 100,
\* cancelled 50, refunded 40 and 10 NULLs, analysed with limit 50, the report has
\* total 1000, nulls 10, non_null 990, unique_count 4, null_pct 1.0, cardinality
\* "Low", four distribution entries of which the first is "completed" at 80.0%
\* with cumulative 80.0%, and exactly two observations: the low-cardinality one
\* and then "Some missing data", with no imbalance observation
C12_StatusScenario ==
    (/\ entry = "column_dist"
     /\ written = 1
     /\ data = StatusData
     /\ args.limit = DefaultLimit) =>
        /\ ret.summary = [total |-> 1000, nulls |-> 10, null_pct |-> Fmt(".2f", FromInt(1)),
                          non_null |-> 990, unique_count |-> 4, cardinality |-> "Low"]
        /\ Len(ret.distribution) = 4
        /\ ret.distribution[1] = <<"completed", Fmt(",", 800), Fmt(".2f", FromInt(80)),
                                   Fmt(".2f", FromInt(80))>>
        /\ ~ret.truncated
        /\ ret.observations =
              << <<"Low cardinality column (", 4,
                   " unique values) - suitable for categorical encoding">>,
                 <<"Some missing data (", Fmt(".2f", FromInt(1)),
                   "%) - consider imputation strategy">> >>

C12_Witness ==
    /\ entry = "column_dist"
    /\ written = 1
    /\ data = StatusData
    /\ args.limit = DefaultLimit
    /\ args.column = StatusColumn
    /\ Len(ret.observations) = 2

\* C13: when the source is empty (total 0) the analysis ends without an error:
\* cardinality is "Empty", null_pct and top_value_pct are 0, there are no
\* distribution rows, and the observations are exactly "No missing data"
C13_EmptySource ==
    (/\ entry = "column_dist"
     /\ EngineTotal(data) = 0
     /\ Len(queries) = 4
     /\ \A i \in DOMAIN queries : queries[i].outcome = "ok"
     /\ pc \in {"exit", "done"}) =>
        /\ exitCode = <<0>>
        /\ written = 1
        /\ locals.total = 0
        /\ ret.summary.cardinality = "Empty"
        /\ ret.summary.null_pct = Fmt(".2f", Zero)
        /\ ret.distribution = <<>>
        /\ build_distribution_rows(locals.distribution, locals.total).top_value_pct = Zero
        /\ ret.observations = << <<"No missing data">> >>

C13_Witness ==
    /\ entry = "column_dist"
    /\ EngineTotal(data) = 0
    /\ written = 1
    /\ pc = "exit"
    /\ ret.observations = << <<"No missing data">> >>
-----------------------------------------------------------------------------
CardinalityTexts ==
    {"Low cardinality column (",
     "Very high cardinality - may be an identifier column, consider excluding from features"}

\* at most one cardinality observation, then exactly one missing-data
\* observation, then at most one imbalance observation
ObservationShape(observations) ==
    \E c \in 0..1, i \in 0..1 :
        /\ Len(observations) = c + 1 + i
        /\ c = 1 => observations[1][1] \in CardinalityTexts
        /\ observations[c + 1][1] \in MissingTexts
        /\ i = 1 => observations[c + 2][1] \in {ExtremeText, ImbalanceText}

\* C14: generate_observations returns, in this order, at most one cardinality
\* observation (Low or Very High), exactly one missing-data observation and at
\* most one imbalance observation: between one and three entries, never none,
\* so the report built from them always has its Observations section
C14_ObservationShape ==
    /\ Returned("generate_observations") =>
          /\ ObservationShape(ret.value)
          /\ Len(ret.value) \in 1..3
    /\ Returned("build_report") =>
          /\ ObservationShape(ret.value.observations)
          /\ ret.value.sections = <<"Summary", "Distribution", "Observations">>

\* three observations, the first of them for a very high cardinality
C14_Witness ==
    /\ Returned("generate_observations")
    /\ Len(ret.value) = 3
    /\ ret.value[1][1] \in CardinalityTexts
    /\ assess_cardinality(args.unique_count, args.total) = VeryHigh
-----------------------------------------------------------------------------
QueryOrder == <<"total", "nulls", "unique", "distribution">>

\* a step of query_column_stats that issues a query issues the next one of the
\* order, on the one open connection, after every earlier query gave a result,
\* with the scan and the quoted column resolved beforehand
IssuesNextQuery ==
    (entry # "connect" /\ queries' # queries) =>
        LET k == Len(queries) + 1
            q == queries'[k]
        IN  /\ Len(queries') = k
            /\ k <= Len(QueryOrder)
            /\ \A i \in DOMAIN queries : queries'[i] = queries[i] /\ queries[i].outcome = "ok"
            /\ q.kind = QueryOrder[k]
            /\ conn = "open" /\ opened = 1 /\ closed = 0
            /\ locals.source_type # None
            /\ \A j \in DOMAIN q.parts :
                  /\ q.parts[j].from = "scan" =>
                        q.parts[j].text = build_scan_query(args.source, locals.source_type).value
                  /\ q.parts[j].from = "safe_col" =>
                        q.parts[j].text = quote_identifier(args.column).value

\* after a query that failed or gave no row nothing is returned
NothingAfterFailure ==
    (entry # "connect" /\ \E i \in DOMAIN queries : queries[i].outcome # "ok") =>
        /\ pc \in {"qcs_finally", "main_except", "exit", "done"}
        /\ ~exc.ok \/ pc = "exit"
        /\ (entry = "query_column_stats" /\ pc = "done") => ~ret.ok
        /\ written = 0

\* C15: query_column_stats issues its queries on one connection strictly in the
\* order total, nulls, distinct, distribution, each only after the one before
\* returned a result; when a query fails or returns no row no later query is
\* issued and no tuple is returned; the source type, the scan and the quoted
\* column are resolved before the first query
C15_QueriesInOrder == [][IssuesNextQuery]_vars /\ []NothingAfterFailure

\* the direct call stopped at its third query, which gave no row
C15_Witness ==
    /\ entry = "query_column_stats"
    /\ pc = "done"
    /\ Len(queries) = 3
    /\ queries[3].outcome = "none"
    /\ ~ret.ok
====
